---- MODULE Spec2Model ----
(***************************************************************************)
(* Model of app.py, the Amazon portfolio audit: numeric cleaning, column   *)
(* discovery, brand resolution, per-brand aggregation, the additive merge  *)
(* of the two advertising aggregates, the outer join with the business     *)
(* aggregate and the derived ratios.                                       *)
(*                                                                         *)
(* A Python string is a sequence of one-character strings; the two         *)
(* non-ASCII characters of the source are written "rsquo" (U+2019) and     *)
(* "nbsp" (U+00A0).  A cell of a table is a record: a string cell          *)
(* Str(s), or a float/int cell Num(n, d) standing for n/d, with            *)
(* Num(1, 0) = inf, Num(-1, 0) = -inf and Num(0, 0) = NaN.                   *)
(*                                                                         *)
(* Library behaviour the model relies on: pd.to_numeric of a string scalar *)
(* gives NaN for the empty string, the value of a decimal literal or of    *)
(* "inf", and raises ValueError otherwise; groupby(...).sum() skips NaN    *)
(* cells; float division by 0 gives inf, -inf or NaN and does not raise;   *)
(* groupby, add and merge(how='outer') return their keys sorted.           *)
(*                                                                         *)
(* Specifications: SpecBrand, SpecCol, SpecNum and SpecLoad apply one      *)
(* function to one input; Spec is the run of the script on three uploaded  *)
(* reports, whose cells are text or numbers, finite or +inf.               *)
(***************************************************************************)
EXTENDS Integers, Sequences, FiniteSets, TLC

VARIABLES
    pc,         \* position of the run
    name,       \* get_brand_robust: argument
    brand,      \* get_brand_robust: returned value
    columns,    \* find_robust_col: df.columns
    keywords,   \* find_robust_col: keywords
    exclude,    \* find_robust_col: exclude
    found,      \* find_robust_col: returned value
    val,        \* clean_numeric: argument
    once,       \* clean_numeric(val)
    twice,      \* clean_numeric(clean_numeric(val))
    brand_map,  \* the module-level dict BRAND_MAP
    upload,     \* load_and_standardize: the table read from the file
    loaded,     \* load_and_standardize: the returned table
    sp_df, sb_df, biz_df,   \* the three reports: as read, then standardized and tagged
    detected,   \* title_col and the columns found by "Column Detection"
    sp_grouped, sb_grouped, total_ads, total_biz,
    final_df,
    tabs,       \* per brand tab: b_data.iloc[0], if any
    error       \* the exception that ended the run, if any

brandVars == <<name, brand>>

colVars == <<columns, keywords, exclude, found>>

numVars == <<val, once, twice>>

loadVars == <<upload, loaded>>

pipeVars == <<sp_df, sb_df, biz_df, detected, sp_grouped, sb_grouped, total_ads,
              total_biz, final_df, tabs, error>>

vars == <<pc, brand_map, brandVars, colVars, numVars, loadVars, pipeVars>>

----------------------------------------------------------------------------
(* Cells *)

Str(s) == [t |-> "str", s |-> s, n |-> 0, d |-> 0]

Sign(x) == IF x > 0 THEN 1 ELSE IF x < 0 THEN -1 ELSE 0

Abs(x) == IF x < 0 THEN -x ELSE x

RECURSIVE Gcd(_, _)
Gcd(a, b) == IF b = 0 THEN a ELSE Gcd(b, a % b)

\* the float n/d in lowest terms with d >= 0; d = 0: inf, -inf or NaN
Num(n, d) ==
    IF d = 0 THEN [t |-> "num", s |-> <<>>, n |-> Sign(n), d |-> 0]
    ELSE LET g == Gcd(Abs(n), Abs(d))
         IN  [t |-> "num", s |-> <<>>, n |-> (Sign(d) * n) \div g, d |-> Abs(d) \div g]

NaN == Num(0, 0)

Inf == Num(1, 0)

None == [t |-> "none", s |-> <<>>, n |-> 0, d |-> 0]

IsStr(x) == x.t = "str"

IsNum(x) == x.t = "num"

IsInf(x) == IsNum(x) /\ x.d = 0 /\ x.n # 0

\* pd.isna / Series.fillna: the missing values
isna(x) == x = None \/ (IsNum(x) /\ x.d = 0 /\ x.n = 0)

IsFinite(x) == IsNum(x) /\ x.d > 0

----------------------------------------------------------------------------
(* Python str methods *)

LowerLetters == <<"a", "b", "c", "d", "e", "f", "g", "h", "i", "j", "k", "l", "m",
                  "n", "o", "p", "q", "r", "s", "t", "u", "v", "w", "x", "y", "z">>

UpperLetters == <<"A", "B", "C", "D", "E", "F", "G", "H", "I", "J", "K", "L", "M",
                  "N", "O", "P", "Q", "R", "S", "T", "U", "V", "W", "X", "Y", "Z">>

\* str.isspace for the characters of the model
Whitespace == {" ", "nbsp"}

ToUpper == [c \in {LowerLetters[i] : i \in 1..26} |->
               UpperLetters[CHOOSE i \in 1..26 : LowerLetters[i] = c]]

ToLower == [c \in {UpperLetters[i] : i \in 1..26} |->
               LowerLetters[CHOOSE i \in 1..26 : UpperLetters[i] = c]]

\* str.upper / str.lower on one character: only a cased letter changes
upper_char(c) == IF c \in DOMAIN ToUpper THEN ToUpper[c] ELSE c

lower_char(c) == IF c \in DOMAIN ToLower THEN ToLower[c] ELSE c

upper(s) == [i \in 1..Len(s) |-> upper_char(s[i])]

lower(s) == [i \in 1..Len(s) |-> lower_char(s[i])]

startswith(s, p) == Len(p) <= Len(s) /\ SubSeq(s, 1, Len(p)) = p

\* p in s
contains(s, p) == \E i \in 0..(Len(s) - Len(p)) : SubSeq(s, i + 1, i + Len(p)) = p

\* s.replace(old, new): left to right, non-overlapping; old is not empty
RECURSIVE replace(_, _, _)
replace(s, old, new) ==
    IF Len(s) < Len(old) THEN s
    ELSE IF SubSeq(s, 1, Len(old)) = old
         THEN new \o replace(SubSeq(s, Len(old) + 1, Len(s)), old, new)
         ELSE <<s[1]>> \o replace(Tail(s), old, new)

RECURSIVE lstrip(_)
lstrip(s) == IF s # <<>> /\ s[1] \in Whitespace THEN lstrip(Tail(s)) ELSE s

RECURSIVE rstrip(_)
rstrip(s) ==
    IF s # <<>> /\ s[Len(s)] \in Whitespace THEN rstrip(SubSeq(s, 1, Len(s) - 1)) ELSE s

strip(s) == rstrip(lstrip(s))

\* s.split(): the maximal runs of non-whitespace characters, in order
RECURSIVE split_from(_, _)
split_from(s, word) ==
    IF s = <<>> THEN (IF word = <<>> THEN <<>> ELSE <<word>>)
    ELSE IF s[1] \in Whitespace
         THEN (IF word = <<>> THEN <<>> ELSE <<word>>) \o split_from(Tail(s), <<>>)
         ELSE split_from(Tail(s), Append(word, s[1]))

split(s) == split_from(s, <<>>)

----------------------------------------------------------------------------
(* Brand configuration *)

BRAND_MAP == <<
    [prefix |-> <<"M", "A">>,
     full_name |-> <<"M", "a", "i", "s", "o", "n", " ", "d", "e", " ", "l", "rsquo",
                     "A", "v", "e", "n", "i", "r">>],
    [prefix |-> <<"C", "L">>,
     full_name |-> <<"C", "r", "e", "a", "t", "i", "o", "n", " ", "L", "a", "m", "i", "s">>],
    [prefix |-> <<"J", "P", "D">>,
     full_name |-> <<"J", "e", "a", "n", " ", "P", "a", "u", "l", " ", "D", "u", "p",
                     "o", "n", "t">>],
    [prefix |-> <<"P", "C">>,
     full_name |-> <<"P", "a", "r", "i", "s", " ", "C", "o", "l", "l", "e", "c", "t",
                     "i", "o", "n">>],
    [prefix |-> <<"D", "C">>,
     full_name |-> <<"D", "o", "r", "a", "l", "l", " ", "C", "o", "l", "l", "e", "c",
                     "t", "i", "o", "n">>],
    [prefix |-> <<"C", "P", "T">>,
     full_name |-> <<"C", "P", " ", "T", "r", "e", "n", "d", "i", "e", "s">>] >>

Unmapped == <<"U", "n", "m", "a", "p", "p", "e", "d">>

Separators == << <<"_">>, <<" ">>, <<"-">>, <<" ", "|">>, <<" ", "-">> >>

\* the text the three rules read (line 32)
brand_text(s) ==
    strip(replace(replace(upper(s), <<"rsquo">>, <<"'">>),
                  <<"L", "A", "V", "E", "N", "I", "R">>,
                  <<"L", "'", "A", "V", "E", "N", "I", "R">>))

prefix_rule(n, e) ==
    \E k \in 1..Len(Separators) : startswith(n, e.prefix \o Separators[k])

full_name_rule(n, e) == contains(n, replace(upper(e.full_name), <<"rsquo">>, <<"'">>))

word_rule(n, e) == LET words == split(n) IN \E k \in 1..Len(words) : words[k] = e.prefix

\* for prefix, full_name in BRAND_MAP.items(): if <rule>: return full_name
RECURSIVE word_loop(_, _)
word_loop(n, i) ==
    IF i > Len(brand_map) THEN Unmapped
    ELSE IF word_rule(n, brand_map[i]) THEN brand_map[i].full_name
         ELSE word_loop(n, i + 1)

RECURSIVE full_name_loop(_, _)
full_name_loop(n, i) ==
    IF i > Len(brand_map) THEN word_loop(n, 1)
    ELSE IF full_name_rule(n, brand_map[i]) THEN brand_map[i].full_name
         ELSE full_name_loop(n, i + 1)

RECURSIVE prefix_loop(_, _)
prefix_loop(n, i) ==
    IF i > Len(brand_map) THEN full_name_loop(n, 1)
    ELSE IF prefix_rule(n, brand_map[i]) THEN brand_map[i].full_name
         ELSE prefix_loop(n, i + 1)

\* one loop over the entries trying the three rules on each entry in turn
RECURSIVE fused_loop(_, _)
fused_loop(n, i) ==
    IF i > Len(brand_map) THEN Unmapped
    ELSE IF prefix_rule(n, brand_map[i]) \/ full_name_rule(n, brand_map[i])
            \/ word_rule(n, brand_map[i])
         THEN brand_map[i].full_name
         ELSE fused_loop(n, i + 1)

\* a cell that is not text has no s: its str() matches no rule
get_brand_fused(x) == IF isna(x) THEN Unmapped ELSE fused_loop(brand_text(x.s), 1)

get_brand_robust(x) == IF isna(x) THEN Unmapped ELSE prefix_loop(brand_text(x.s), 1)

----------------------------------------------------------------------------
(* find_robust_col *)

DefaultExclude == << <<"a", "c", "o", "s">>, <<"r", "o", "a", "s">>, <<"c", "p", "c">>,
                     <<"c", "t", "r">>, <<"r", "a", "t", "e">> >>

\* any(kw.lower() in col_clean for kw in kws)
any_in(kws, col_clean) == \E k \in 1..Len(kws) : contains(col_clean, lower(kws[k]))

RECURSIVE col_loop(_, _, _, _)
col_loop(cols, i, kws, excl) ==
    IF i > Len(cols) THEN None
    ELSE LET col_clean == lower(strip(cols[i]))
         IN  IF any_in(kws, col_clean) /\ ~any_in(excl, col_clean)
             THEN Str(cols[i])
             ELSE col_loop(cols, i + 1, kws, excl)

\* the keywords tried in turn, each over all the columns
RECURSIVE kw_first_loop(_, _, _, _)
kw_first_loop(cols, k, kws, excl) ==
    IF k > Len(kws) THEN None
    ELSE IF col_loop(cols, 1, <<kws[k]>>, excl) # None
         THEN col_loop(cols, 1, <<kws[k]>>, excl)
         ELSE kw_first_loop(cols, k + 1, kws, excl)

find_col_kw_first(cols, kws, excl) == kw_first_loop(cols, 1, kws, excl)

find_robust_col(cols, kws, excl) == col_loop(cols, 1, kws, excl)

----------------------------------------------------------------------------
(* clean_numeric *)

DigitChars == <<"0", "1", "2", "3", "4", "5", "6", "7", "8", "9">>

IsDigit(c) == \E i \in 1..Len(DigitChars) : DigitChars[i] = c

DigitVal(c) == (CHOOSE i \in 1..Len(DigitChars) : DigitChars[i] = c) - 1

AllDigits(s) == \A i \in 1..Len(s) : IsDigit(s[i])

RECURSIVE DigitsVal(_)
DigitsVal(s) ==
    IF s = <<>> THEN 0 ELSE 10 * DigitsVal(SubSeq(s, 1, Len(s) - 1)) + DigitVal(s[Len(s)])

RECURSIVE Pow10(_)
Pow10(k) == IF k = 0 THEN 1 ELSE 10 * Pow10(k - 1)

ValueError == [t |-> "ValueError", s |-> <<>>, n |-> 0, d |-> 0]

\* an unsigned decimal literal: digits, at most one ".", at least one digit
unsigned_numeric(s) ==
    IF s # <<>> /\ AllDigits(s) THEN Num(DigitsVal(s), 1)
    ELSE IF \E i \in 1..Len(s) :
                /\ s[i] = "."
                /\ AllDigits(SubSeq(s, 1, i - 1)) /\ AllDigits(SubSeq(s, i + 1, Len(s)))
                /\ Len(s) > 1
         THEN LET i == CHOOSE j \in 1..Len(s) : s[j] = "."
                  frac == SubSeq(s, i + 1, Len(s))
              IN  Num(DigitsVal(SubSeq(s, 1, i - 1)) * Pow10(Len(frac)) + DigitsVal(frac),
                      Pow10(Len(frac)))
         ELSE IF lower(s) = <<"i", "n", "f">> THEN Inf
         ELSE ValueError

\* pd.to_numeric of a string scalar: the empty string is missing (NaN), a decimal
\* literal or "inf" with an optional sign is its value, anything else raises
to_numeric(s) ==
    IF s = <<>> THEN NaN
    ELSE IF s[1] = "-"
         THEN LET u == unsigned_numeric(Tail(s))
              IN  IF u = ValueError THEN ValueError ELSE Num(-u.n, u.d)
         ELSE unsigned_numeric(s)

cleaned_text(s) ==
    strip(replace(replace(replace(replace(s, <<"A", "E", "D">>, <<>>), <<"$">>, <<>>),
                          <<"nbsp">>, <<>>), <<",">>, <<>>))

\* the cleaned text, instead of val, returned when the parse fails
clean_numeric_keep_cleaned(x) ==
    IF IsStr(x)
    THEN IF to_numeric(cleaned_text(x.s)) = ValueError
         THEN Str(cleaned_text(x.s))
         ELSE to_numeric(cleaned_text(x.s))
    ELSE x

clean_numeric(x) ==
    IF IsStr(x)
    THEN IF to_numeric(cleaned_text(x.s)) = ValueError
         THEN x
         ELSE to_numeric(cleaned_text(x.s))
    ELSE x

----------------------------------------------------------------------------
(* Float arithmetic of the table columns *)

Zero == Num(0, 1)

neg(a) == Num(-a.n, a.d)

\* a + b
add(a, b) ==
    IF isna(a) \/ isna(b) THEN NaN
    ELSE IF IsInf(a) /\ IsInf(b) THEN (IF a.n = b.n THEN a ELSE NaN)
    ELSE IF IsInf(a) THEN a
    ELSE IF IsInf(b) THEN b
    ELSE Num(a.n * b.d + b.n * a.d, a.d * b.d)

\* a - b
sub(a, b) == add(a, neg(b))

\* a / b on float columns: x/0 is inf, -inf or NaN and never raises
div(a, b) ==
    IF isna(a) \/ isna(b) THEN NaN
    ELSE IF IsInf(a) /\ IsInf(b) THEN NaN
    ELSE IF IsInf(a) THEN Num(a.n * (IF b.n < 0 THEN -1 ELSE 1), 0)
    ELSE IF IsInf(b) THEN Zero
    ELSE IF b.n = 0 THEN Num(a.n, 0)
    ELSE Num(a.n * b.d, a.d * b.n)

\* .replace([np.inf, -np.inf], 0)
replace_inf(x) == IF IsInf(x) THEN Zero ELSE x

\* .fillna(0)
fillna(x) == IF isna(x) THEN Zero ELSE x

\* the quotient left as the division gives it
ratio_unguarded(a, b) == div(a, b)

\* (a / b).replace([np.inf, -np.inf], 0).fillna(0)
ratio(a, b) == fillna(replace_inf(div(a, b)))

----------------------------------------------------------------------------
(* Tables: [columns |-> headers, rows |-> rows of cells, one cell per column] *)

IdTokens == << <<"n", "a", "m", "e">>, <<"t", "i", "t", "l", "e">>, <<"t", "e", "r", "m">>, <<"t", "a", "r", "g", "e", "t", "i", "n", "g">>, <<"m", "a", "t", "c", "h">>, <<"b", "r", "a", "n", "d">>,
               <<"a", "s", "i", "n">> >>

\* any(x in col.lower() for x in [...]) (line 87)
is_identifier(col) == \E k \in 1..Len(IdTokens) : contains(lower(col), IdTokens[k])

load_and_standardize(file) ==
    LET cols == [i \in 1..Len(file.columns) |-> strip(file.columns[i])]
    IN  [columns |-> cols,
         rows |-> [r \in 1..Len(file.rows) |->
                      [i \in 1..Len(cols) |->
                          IF is_identifier(cols[i]) THEN file.rows[r][i]
                          ELSE clean_numeric(file.rows[r][i])]]]

\* position of the column named col (0: df[col] raises KeyError)
col_index(df, col) ==
    IF col # None /\ \E i \in 1..Len(df.columns) : df.columns[i] = col.s
    THEN CHOOSE i \in 1..Len(df.columns) :
             df.columns[i] = col.s /\ \A j \in 1..(i - 1) : df.columns[j] # col.s
    ELSE 0

has_col(df, col) == col_index(df, col) # 0

\* df[col][r]
cell(df, r, col) == df.rows[r][col_index(df, col)]

CampaignName == Str(<<"C", "a", "m", "p", "a", "i", "g", "n", " ", "N", "a", "m", "e">>)

BrandCol == Str(<<"B", "r", "a", "n", "d">>)

SpendCol == Str(<<"S", "p", "e", "n", "d">>)

ClicksCol == Str(<<"C", "l", "i", "c", "k", "s">>)

ImpressionsCol == Str(<<"I", "m", "p", "r", "e", "s", "s", "i", "o", "n", "s">>)

\* df['Brand'] = df[col].apply(get_brand_robust): a new last column, or the
\* existing Brand column overwritten
with_brand(df, col) ==
    IF has_col(df, BrandCol)
    THEN [columns |-> df.columns,
          rows |-> [r \in 1..Len(df.rows) |->
                       [df.rows[r] EXCEPT ![col_index(df, BrandCol)] =
                           Str(get_brand_robust(cell(df, r, col)))]]]
    ELSE [columns |-> Append(df.columns, BrandCol.s),
          rows |-> [r \in 1..Len(df.rows) |->
                       Append(df.rows[r], Str(get_brand_robust(cell(df, r, col))))]]

----------------------------------------------------------------------------
(* Ordering of strings (sorted group keys) *)

\* the characters of the model in code-point order
CodePoints == <<" ", "$", "'", ",", "-", ".", "/", "0", "1", "2", "3", "4", "5", "6",
                "7", "8", "9",
                "A", "B", "C", "D", "E", "F", "G", "H", "I", "J", "K", "L", "M",
                "N", "O", "P", "Q", "R", "S", "T", "U", "V", "W", "X", "Y", "Z", "_",
                "a", "b", "c", "d", "e", "f", "g", "h", "i", "j", "k", "l", "m",
                "n", "o", "p", "q", "r", "s", "t", "u", "v", "w", "x", "y", "z", "|",
                "nbsp", "rsquo">>

Ord == [c \in {CodePoints[i] : i \in 1..Len(CodePoints)} |->
           CHOOSE i \in 1..Len(CodePoints) : CodePoints[i] = c]

ord(c) == Ord[c]

RECURSIVE str_lt(_, _)
str_lt(a, b) ==
    IF b = <<>> THEN FALSE
    ELSE IF a = <<>> THEN TRUE
    ELSE IF a[1] = b[1] THEN str_lt(Tail(a), Tail(b))
    ELSE ord(a[1]) < ord(b[1])

RECURSIVE sorted(_)
sorted(S) ==
    IF S = {} THEN <<>>
    ELSE LET m == CHOOSE x \in S : \A y \in S \ {x} : str_lt(x, y)
         IN  <<m>> \o sorted(S \ {m})

----------------------------------------------------------------------------
(* Aggregation, additive merge, outer join, ratios *)

\* the group keys of df.groupby('Brand'), sorted
group_keys(df) == sorted({cell(df, r, BrandCol).s : r \in 1..Len(df.rows)})

\* the sum of column col over the rows of brand b from row r on, NaN cells skipped
RECURSIVE sum_from(_, _, _, _)
sum_from(df, b, col, r) ==
    IF r > Len(df.rows) THEN Zero
    ELSE IF cell(df, r, BrandCol).s = b /\ ~isna(cell(df, r, col))
         THEN add(cell(df, r, col), sum_from(df, b, col, r + 1))
         ELSE sum_from(df, b, col, r + 1)

group_sum(df, b, col) == sum_from(df, b, col, 1)

\* a column 'sum' can add up: no text cell is left in it
summable(df, col) == \A r \in 1..Len(df.rows) : IsNum(cell(df, r, col))

\* df.groupby('Brand').agg({Spend, Clicks, Impressions, sales_col, orders_col: 'sum'})
\*   .rename(columns={sales_col: 'Ad Sales', orders_col: 'Orders'})
ads_grouped(df, sales_col, orders_col) ==
    LET keys == group_keys(df)
    IN  [k \in 1..Len(keys) |->
            [Brand |-> keys[k],
             Spend |-> group_sum(df, keys[k], SpendCol),
             Clicks |-> group_sum(df, keys[k], ClicksCol),
             Impressions |-> group_sum(df, keys[k], ImpressionsCol),
             AdSales |-> group_sum(df, keys[k], sales_col),
             Orders |-> group_sum(df, keys[k], orders_col)]]

\* one output row per input row: the rows are not grouped
biz_ungrouped(df, sales_col) ==
    [r \in 1..Len(df.rows) |->
        [Brand |-> cell(df, r, BrandCol).s, TotalSales |-> fillna(cell(df, r, sales_col))]]

\* biz_df.groupby('Brand')[sales_col].sum().reset_index().rename(... 'Total Sales')
biz_grouped(df, sales_col) ==
    LET keys == group_keys(df)
    IN  [k \in 1..Len(keys) |->
            [Brand |-> keys[k], TotalSales |-> group_sum(df, keys[k], sales_col)]]

Brands(frame) == {frame[i].Brand : i \in 1..Len(frame)}

\* frame.loc[b, m], NaN where the frame has no row b
value_at(frame, b, m) ==
    IF b \in Brands(frame)
    THEN frame[CHOOSE i \in 1..Len(frame) : frame[i].Brand = b][m]
    ELSE NaN

\* a + b with fill_value=0: a NaN on one side only counts as 0
add_fill(a, b) == IF isna(a) /\ isna(b) THEN NaN ELSE add(fillna(a), fillna(b))

\* a + b without fill_value
add_nofill(a, b) == add(a, b)

add_aligned(a, b) == add_fill(a, b)

\* sp_grouped.add(sb_grouped, fill_value=0).reset_index()
frame_add(A, B) ==
    LET keys == sorted(Brands(A) \cup Brands(B))
    IN  [k \in 1..Len(keys) |->
            [Brand |-> keys[k],
             Spend |-> add_aligned(value_at(A, keys[k], "Spend"), value_at(B, keys[k], "Spend")),
             Clicks |-> add_aligned(value_at(A, keys[k], "Clicks"), value_at(B, keys[k], "Clicks")),
             Impressions |-> add_aligned(value_at(A, keys[k], "Impressions"),
                                         value_at(B, keys[k], "Impressions")),
             AdSales |-> add_aligned(value_at(A, keys[k], "AdSales"),
                                     value_at(B, keys[k], "AdSales")),
             Orders |-> add_aligned(value_at(A, keys[k], "Orders"), value_at(B, keys[k], "Orders"))]]

MissingAds == [Spend |-> NaN, Clicks |-> NaN, Impressions |-> NaN, AdSales |-> NaN,
               Orders |-> NaN]

MissingBiz == [TotalSales |-> NaN]

\* the rows of frame with key b; one all-NaN row when there is none
rows_of(frame, b, missing) ==
    LET hit == SelectSeq(frame, LAMBDA x : x.Brand = b)
    IN  IF hit = <<>> THEN <<missing>> ELSE hit

joined(b, l, r) ==
    [Brand |-> b, Spend |-> l.Spend, Clicks |-> l.Clicks, Impressions |-> l.Impressions,
     AdSales |-> l.AdSales, Orders |-> l.Orders, TotalSales |-> r.TotalSales]

\* the rows of the join for the keys from position k on: each left row of a key
\* with each right row of it
RECURSIVE merge_from(_, _, _, _)
merge_from(keys, k, L, R) ==
    IF k > Len(keys) THEN <<>>
    ELSE LET l == rows_of(L, keys[k], MissingAds)
             r == rows_of(R, keys[k], MissingBiz)
         IN  [i \in 1..(Len(l) * Len(r)) |->
                 joined(keys[k], l[((i - 1) \div Len(r)) + 1], r[((i - 1) % Len(r)) + 1])]
             \o merge_from(keys, k + 1, L, R)

\* how='inner': the keys of both sides only
merge_inner(L, R) == merge_from(sorted(Brands(L) \cap Brands(R)), 1, L, R)

\* pd.merge(L, R, on='Brand', how='outer')
merge_outer(L, R) == merge_from(sorted(Brands(L) \cup Brands(R)), 1, L, R)

\* DataFrame.fillna(0) on the joined table
fill_row(x) ==
    [Brand |-> x.Brand, Spend |-> fillna(x.Spend), Clicks |-> fillna(x.Clicks),
     Impressions |-> fillna(x.Impressions), AdSales |-> fillna(x.AdSales),
     Orders |-> fillna(x.Orders), TotalSales |-> fillna(x.TotalSales)]

kpi_row(x) ==
    [Brand |-> x.Brand, Spend |-> x.Spend, Clicks |-> x.Clicks,
     Impressions |-> x.Impressions, AdSales |-> x.AdSales, Orders |-> x.Orders,
     TotalSales |-> x.TotalSales,
     CTR |-> ratio(x.Clicks, x.Impressions),
     CVR |-> ratio(x.Orders, x.Clicks),
     ROAS |-> ratio(x.AdSales, x.Spend),
     ACOS |-> ratio(x.Spend, x.AdSales),
     TACOS |-> ratio(x.Spend, x.TotalSales),
     OrganicSales |-> sub(x.TotalSales, x.AdSales),
     PaidContrib |-> ratio(x.AdSales, x.TotalSales),
     OrganicContrib |-> ratio(sub(x.TotalSales, x.AdSales), x.TotalSales)]

calculate_audit_kpis(df) == [i \in 1..Len(df) |-> kpi_row(df[i])]

\* the table left as it is
keep_all_rows(df) == df

\* final_df[final_df['Brand'] != "Unmapped"]
drop_unmapped(df) == SelectSeq(df, LAMBDA x : x.Brand # Unmapped)

\* lines 117-118
final_table(ads, biz) ==
    drop_unmapped(calculate_audit_kpis(
        LET m == merge_outer(ads, biz) IN [i \in 1..Len(m) |-> fill_row(m[i])]))

\* sorted(BRAND_MAP.values())
tab_brands == sorted({brand_map[i].full_name : i \in 1..Len(brand_map)})

\* lines 172-174: b_data, and r = b_data.iloc[0] when b_data is not empty
brand_tabs(df) ==
    [i \in 1..Len(tab_brands) |->
        LET b_data == SelectSeq(df, LAMBDA x : x.Brand = tab_brands[i])
        IN  [brand_name |-> tab_brands[i],
             r |-> IF b_data # <<>> THEN <<b_data[1]>> ELSE <<>>]]

----------------------------------------------------------------------------
(* Bounds and input pools *)

MaxFrags == 3

MaxCols == 3

MaxKw == 2

MaxLen == 4

SeqsUpTo(S, k) == UNION {[1..m -> S] : m \in 0..k}

RECURSIVE Concat(_)
Concat(ss) == IF ss = <<>> THEN <<>> ELSE Head(ss) \o Concat(Tail(ss))

\* pieces of campaign names and product titles
NameFragments == {
    <<"M", "A">>, <<"C", "L">>, <<"c", "p", "t", "_">>, <<"_">>, <<" ">>, <<"-">>,
    <<" ", "D", "C", " ">>,
    BRAND_MAP[1].full_name, BRAND_MAP[2].full_name,
    <<"m", "a", "i", "s", "o", "n", " ", "d", "e", " ", "l", "a", "v", "e", "n", "i", "r">> }

NameInputs == {Str(Concat(fs)) : fs \in SeqsUpTo(NameFragments, MaxFrags)} \cup {NaN, None}

HeaderPool == {
    <<"O", "r", "d", "e", "r", "s">>,
    <<" ", "S", "A", "L", "E", "S", " ">>,
    <<"S", "a", "l", "e", "s", " ", "R", "a", "t", "e">>,
    <<"T", "i", "t", "l", "e">>,
    <<"S", "p", "e", "n", "d">> }

KeywordPool == { <<"S", "a", "l", "e", "s">>, <<"O", "r", "d", "e", "r", "s">>,
                 <<"T", "i", "t", "l", "e">> }

KeywordInputs == SeqsUpTo(KeywordPool, MaxKw)

ExcludeInputs == {DefaultExclude, <<>>, << <<"O", "R", "D">> >>}

NumAlphabet == {"A", "E", "D", "$", ",", "1", " "}

ValInputs == {Str(s) : s \in SeqsUpTo(NumAlphabet, MaxLen)}
                 \cup {Num(3, 1), Num(1, 2), NaN, Inf}

MaxRows == 2

\* the Sponsored Products / Sponsored Brands headers as exported, and the
\* variants of the export: every column, or one optional metric column absent
AdHeaders == << <<"C", "a", "m", "p", "a", "i", "g", "n", " ", "N", "a", "m", "e">>, <<"S", "p", "e", "n", "d", " ">>, <<"C", "l", "i", "c", "k", "s">>, <<"I", "m", "p", "r", "e", "s", "s", "i", "o", "n", "s">>,
                <<"T", "o", "t", "a", "l", " ", "S", "a", "l", "e", "s", " ">>, <<"O", "r", "d", "e", "r", "s", " ", "(", "#", ")">> >>

SpSchemas == { <<1, 2, 3, 4, 5, 6>>, <<1, 2, 3, 4, 5>>, <<1, 2, 3, 4, 6>> }

SbSchemas == { <<1, 2, 3, 4, 5, 6>> }

BizHeaders == << <<"T", "i", "t", "l", "e">>, <<"O", "r", "d", "e", "r", "e", "d", " ", "P", "r", "o", "d", "u", "c", "t", " ", "S", "a", "l", "e", "s">> >>

IntCell(k) == Num(k, 1)

SpRowPool == {
    << Str(<<"M", "A", "_", "x">>), IntCell(2), IntCell(1), IntCell(4), Str(<<"A", "E", "D", " ", "3">>), IntCell(1) >>,
    << Str(<<"c", "l", "-", "x">>), IntCell(1), IntCell(0), IntCell(0), IntCell(0), IntCell(1) >>,
    << Str(<<"z", "z">>), IntCell(1), IntCell(1), IntCell(1), IntCell(1), IntCell(1) >> }

SbRowPool == {
    << Str(<<"C", "L", "_", "y">>), IntCell(1), IntCell(1), IntCell(2), Str(<<"$", "2", ".", "5", "0">>), IntCell(1) >>,
    << Str(<<"J", "P", "D", " ", "y">>), Str(<<"i", "n", "f">>), IntCell(1), IntCell(1), IntCell(2), IntCell(0) >>,
    << Str(<<"z", "z">>), IntCell(1), IntCell(0), IntCell(1), IntCell(0), IntCell(0) >> }

BizRowPool == {
    << Str(<<"M", "a", "i", "s", "o", "n", " ", "d", "e", " ", "l", "rsquo", "A", "v", "e", "n", "i", "r">>), Str(<<"A", "E", "D", " ", "5">>) >>,
    << Str(<<"x", " ", "C", "r", "e", "a", "t", "i", "o", "n", " ", "L", "a", "m", "i", "s">>), IntCell(0) >>,
    << Str(<<"P", "C", " ", "P", "a", "r", "f", "u", "m">>), IntCell(4) >>,
    << Str(<<"z", "z">>), IntCell(1) >> }

project(row, schema) == [i \in 1..Len(schema) |-> row[schema[i]]]

Table(headers, schema, rows) ==
    [columns |-> project(headers, schema),
     rows |-> [r \in 1..Len(rows) |-> project(rows[r], schema)]]

SpFiles == {Table(AdHeaders, sch, rows) :
                sch \in SpSchemas, rows \in SeqsUpTo(SpRowPool, MaxRows)}

SbFiles == {Table(AdHeaders, sch, rows) :
                sch \in SbSchemas, rows \in {<<>>} \cup {<<x>> : x \in SbRowPool}}

BizFiles == {Table(BizHeaders, <<1, 2>>, rows) :
                rows \in {<<>>} \cup {<<x>> : x \in BizRowPool}
                           \cup {<<x, y>> : x, y \in BizRowPool}}

\* one report with an identifier column and a metric column, in either order
LoadHeaders == { << <<"C", "a", "m", "p", "a", "i", "g", "n", " ", "N", "a", "m", "e", " ">>, <<"S", "p", "e", "n", "d", " ">> >>, << <<" ", "C", "l", "i", "c", "k", "s">>, <<"A", "S", "I", "N">> >>,
                 << <<"S", "p", "e", "n", "d">>, <<"B", "r", "a", "n", "d", " ", "S", "a", "l", "e", "s">> >> }

LoadCells == { Str(<<"N", "/", "A">>), Str(<<"A", "E", "D", " ", "1", ",", "2", "3", "4", ".", "5", "0">>), Str(<<>>), NaN, IntCell(2) }

LoadFiles == {[columns |-> h, rows |-> rows] :
                 h \in LoadHeaders,
                 rows \in SeqsUpTo({<<x, y>> : x, y \in LoadCells}, MaxRows)}

----------------------------------------------------------------------------
(* Specifications *)

\* before "Column Detection" has run
NotDetected ==
    [title_col |-> None, sp_sales_col |-> None, sb_sales_col |-> None,
     sp_orders_col |-> None, sb_orders_col |-> None, biz_sales_col |-> None]

IdleBrand == name = None /\ brand = <<>>

IdleCol == columns = <<>> /\ keywords = <<>> /\ exclude = <<>> /\ found = None

IdleNum == val = None /\ once = None /\ twice = None

IdleLoad == upload = <<>> /\ loaded = <<>>

IdlePipe ==
    /\ sp_df = <<>> /\ sb_df = <<>> /\ biz_df = <<>> /\ detected = NotDetected
    /\ sp_grouped = <<>> /\ sb_grouped = <<>> /\ total_ads = <<>> /\ total_biz = <<>>
    /\ final_df = <<>> /\ tabs = <<>> /\ error = "none"

(* get_brand_robust applied to one text *)

InitBrand ==
    /\ pc = "brand_call"
    /\ brand_map = BRAND_MAP
    /\ name \in NameInputs
    /\ brand = <<>>
    /\ IdleCol /\ IdleNum /\ IdleLoad /\ IdlePipe

BrandCall ==
    /\ pc = "brand_call"
    /\ brand' = get_brand_robust(name)
    /\ pc' = "brand_done"
    /\ UNCHANGED <<name, brand_map, colVars, numVars, loadVars, pipeVars>>

SpecBrand == InitBrand /\ [][BrandCall]_vars

(* find_robust_col applied to one header list *)

InitCol ==
    /\ pc = "col_call"
    /\ brand_map = BRAND_MAP
    /\ columns \in SeqsUpTo(HeaderPool, MaxCols)
    /\ keywords \in KeywordInputs
    /\ exclude \in ExcludeInputs
    /\ found = None
    /\ IdleBrand /\ IdleNum /\ IdleLoad /\ IdlePipe

ColCall ==
    /\ pc = "col_call"
    /\ found' = find_robust_col(columns, keywords, exclude)
    /\ pc' = "col_done"
    /\ UNCHANGED <<columns, keywords, exclude, brand_map, brandVars, numVars, loadVars,
                   pipeVars>>

SpecCol == InitCol /\ [][ColCall]_vars

(* clean_numeric applied to one cell, and to its own result *)

InitNum ==
    /\ pc = "num_call"
    /\ brand_map = BRAND_MAP
    /\ val \in ValInputs
    /\ once = None /\ twice = None
    /\ IdleBrand /\ IdleCol /\ IdleLoad /\ IdlePipe

Clean ==
    /\ pc = "num_call"
    /\ once' = clean_numeric(val)
    /\ pc' = "num_once"
    /\ UNCHANGED <<val, twice, brand_map, brandVars, colVars, loadVars, pipeVars>>

CleanAgain ==
    /\ pc = "num_once"
    /\ twice' = clean_numeric(once)
    /\ pc' = "num_twice"
    /\ UNCHANGED <<val, once, brand_map, brandVars, colVars, loadVars, pipeVars>>

SpecNum == InitNum /\ [][Clean \/ CleanAgain]_vars

(* load_and_standardize applied to one report *)

InitLoad ==
    /\ pc = "load_call"
    /\ brand_map = BRAND_MAP
    /\ upload \in LoadFiles
    /\ loaded = <<>>
    /\ IdleBrand /\ IdleCol /\ IdleNum /\ IdlePipe

Load ==
    /\ pc = "load_call"
    /\ loaded' = load_and_standardize(upload)
    /\ pc' = "load_done"
    /\ UNCHANGED <<upload, brand_map, brandVars, colVars, numVars, pipeVars>>

SpecLoad == InitLoad /\ [][Load]_vars

(* The run of the script once the three files are uploaded (lines 81-175) *)

Init ==
    /\ pc = "uploaded"
    /\ brand_map = BRAND_MAP
    /\ sp_df \in SpFiles /\ sb_df \in SbFiles /\ biz_df \in BizFiles
    /\ detected = NotDetected
    /\ sp_grouped = <<>> /\ sb_grouped = <<>> /\ total_ads = <<>> /\ total_biz = <<>>
    /\ final_df = <<>> /\ tabs = <<>> /\ error = "none"
    /\ IdleBrand /\ IdleCol /\ IdleNum /\ IdleLoad

NoCall == <<brand_map, brandVars, colVars, numVars, loadVars>>

\* line 91
LoadReports ==
    /\ pc = "uploaded"
    /\ sp_df' = load_and_standardize(sp_df)
    /\ sb_df' = load_and_standardize(sb_df)
    /\ biz_df' = load_and_standardize(biz_df)
    /\ pc' = "loaded"
    /\ UNCHANGED <<detected, sp_grouped, sb_grouped, total_ads, total_biz,
                   final_df, tabs, error, NoCall>>

title_col == find_robust_col(biz_df.columns, << <<"T", "i", "t", "l", "e">>, <<"P", "r", "o", "d", "u", "c", "t", " ", "N", "a", "m", "e">> >>,
                             DefaultExclude)

\* lines 94-97 can index their columns
CanMap ==
    has_col(sp_df, CampaignName) /\ has_col(sb_df, CampaignName) /\ title_col # None

\* lines 94-105: "Robust Mapping" and "Column Detection"
MapAndDetect ==
    /\ pc = "loaded"
    /\ CanMap
    /\ sp_df' = with_brand(sp_df, CampaignName)
    /\ sb_df' = with_brand(sb_df, CampaignName)
    /\ biz_df' = with_brand(biz_df, title_col)
    /\ detected' =
          [title_col |-> title_col,
           sp_sales_col |-> find_robust_col(sp_df'.columns, << <<"S", "a", "l", "e", "s">> >>, DefaultExclude),
           sb_sales_col |-> find_robust_col(sb_df'.columns, << <<"S", "a", "l", "e", "s">> >>, DefaultExclude),
           sp_orders_col |-> find_robust_col(sp_df'.columns, << <<"O", "r", "d", "e", "r", "s">> >>, DefaultExclude),
           sb_orders_col |-> find_robust_col(sb_df'.columns, << <<"O", "r", "d", "e", "r", "s">> >>, DefaultExclude),
           biz_sales_col |-> find_robust_col(biz_df'.columns,
                                 << <<"O", "r", "d", "e", "r", "e", "d", " ", "P", "r", "o", "d", "u", "c", "t", " ", "S", "a", "l", "e", "s">>, <<"S", "a", "l", "e", "s">> >>, DefaultExclude)]
    /\ pc' = "detected"
    /\ UNCHANGED <<sp_grouped, sb_grouped, total_ads, total_biz, final_df, tabs,
                   error, NoCall>>

\* the columns .agg sums
agg_cols(sales_col, orders_col) ==
    <<SpendCol, ClicksCol, ImpressionsCol, sales_col, orders_col>>

\* every column named in the .agg dict exists (else KeyError) ...
CanIndex(t, sales_col, orders_col) ==
    \A k \in 1..5 : has_col(t, agg_cols(sales_col, orders_col)[k])

\* ... and can be summed (else TypeError)
CanSum(t, sales_col, orders_col) ==
    \A k \in 1..5 : summable(t, agg_cols(sales_col, orders_col)[k])

\* lines 108-111
AggregateAds ==
    /\ pc = "detected"
    /\ CanIndex(sp_df, detected.sp_sales_col, detected.sp_orders_col)
    /\ CanIndex(sb_df, detected.sb_sales_col, detected.sb_orders_col)
    /\ CanSum(sp_df, detected.sp_sales_col, detected.sp_orders_col)
    /\ CanSum(sb_df, detected.sb_sales_col, detected.sb_orders_col)
    /\ sp_grouped' = ads_grouped(sp_df, detected.sp_sales_col, detected.sp_orders_col)
    /\ sb_grouped' = ads_grouped(sb_df, detected.sb_sales_col, detected.sb_orders_col)
    /\ total_ads' = frame_add(sp_grouped', sb_grouped')
    /\ pc' = "ads"
    /\ UNCHANGED <<sp_df, sb_df, biz_df, detected, total_biz, final_df, tabs,
                   error, NoCall>>

\* line 114
AggregateBusiness ==
    /\ pc = "ads"
    /\ has_col(biz_df, detected.biz_sales_col)
    /\ summable(biz_df, detected.biz_sales_col)
    /\ total_biz' = biz_grouped(biz_df, detected.biz_sales_col)
    /\ pc' = "biz"
    /\ UNCHANGED <<sp_df, sb_df, biz_df, detected, sp_grouped, sb_grouped,
                   total_ads, final_df, tabs, error, NoCall>>

\* lines 117-118
FinalAuditTable ==
    /\ pc = "biz"
    /\ final_df' = final_table(total_ads, total_biz)
    /\ pc' = "final"
    /\ UNCHANGED <<sp_df, sb_df, biz_df, detected, sp_grouped, sb_grouped,
                   total_ads, total_biz, tabs, error, NoCall>>

\* lines 170-175
BrandTabs ==
    /\ pc = "final"
    /\ tabs' = brand_tabs(final_df)
    /\ pc' = "tabs"
    /\ UNCHANGED <<sp_df, sb_df, biz_df, detected, sp_grouped, sb_grouped,
                   total_ads, total_biz, final_df, error, NoCall>>

\* the statement at the current position indexes a column that does not exist
RaisesKeyError ==
    \/ pc = "loaded" /\ ~CanMap
    \/ /\ pc = "detected"
       /\ ~(/\ CanIndex(sp_df, detected.sp_sales_col, detected.sp_orders_col)
            /\ CanIndex(sb_df, detected.sb_sales_col, detected.sb_orders_col))
    \/ pc = "ads" /\ ~has_col(biz_df, detected.biz_sales_col)

\* the statement at the current position adds up a column that still holds text
RaisesTypeError ==
    \/ /\ pc = "detected"
       /\ CanIndex(sp_df, detected.sp_sales_col, detected.sp_orders_col)
       /\ CanIndex(sb_df, detected.sb_sales_col, detected.sb_orders_col)
       /\ ~(/\ CanSum(sp_df, detected.sp_sales_col, detected.sp_orders_col)
            /\ CanSum(sb_df, detected.sb_sales_col, detected.sb_orders_col))
    \/ /\ pc = "ads"
       /\ has_col(biz_df, detected.biz_sales_col)
       /\ ~summable(biz_df, detected.biz_sales_col)

\* an uncaught exception ends the run: nothing after it is computed
Raise ==
    /\ RaisesKeyError \/ RaisesTypeError
    /\ error' = IF RaisesKeyError THEN "KeyError" ELSE "TypeError"
    /\ pc' = "raised"
    /\ UNCHANGED <<sp_df, sb_df, biz_df, detected, sp_grouped, sb_grouped,
                   total_ads, total_biz, final_df, tabs, NoCall>>

Next ==
    \/ LoadReports
    \/ MapAndDetect
    \/ AggregateAds
    \/ AggregateBusiness
    \/ FinalAuditTable
    \/ BrandTabs
    \/ Raise

Spec == Init /\ [][Next]_vars

----------------------------------------------------------------------------
(* Claims *)

EntryIndex == 1..Len(BRAND_MAP)

\* the first entry, in declared order, that satisfies rule R (0: none does)
FirstEntry(R(_)) ==
    IF \E i \in EntryIndex : R(BRAND_MAP[i])
    THEN CHOOSE i \in EntryIndex :
             R(BRAND_MAP[i]) /\ \A j \in 1..(i - 1) : ~R(BRAND_MAP[j])
    ELSE 0

\* the upper-cased, quote-normalized, trimmed text
ClaimText(s) == strip(replace(upper(s), <<"rsquo">>, <<"'">>))

\* C1: the three rules of get_brand_robust are whole passes over the taxonomy in
\* declared order: the first entry whose prefix and a separator start the text wins;
\* full-name containment is consulted only when no entry prefix-matches; the
\* whole-word rule only when neither matches; otherwise, and for a null or empty
\* input, the result is "Unmapped".
C1_ThreePasses ==
    pc = "brand_done" =>
        IF isna(name) THEN brand = Unmapped
        ELSE LET n == brand_text(name.s)
                 t == ClaimText(name.s)
                 P(e) == \E k \in 1..Len(Separators) : startswith(t, e.prefix \o Separators[k])
                 F(e) == full_name_rule(n, e)
                 W(e) == word_rule(n, e)
                 p == FirstEntry(P)
                 f == FirstEntry(F)
                 w == FirstEntry(W)
             IN  /\ p # 0 => brand = BRAND_MAP[p].full_name
                 /\ p = 0 /\ f # 0 => brand = BRAND_MAP[f].full_name
                 /\ p = 0 /\ f = 0 /\ w # 0 => brand = BRAND_MAP[w].full_name
                 /\ p = 0 /\ f = 0 /\ w = 0 => brand = Unmapped
                 /\ name.s = <<>> => brand = Unmapped

\* a later entry prefix-matches a text that contains an earlier entry's full name
\* and a third entry's prefix as a whole word, and the prefix match is returned
C1_Witness ==
    /\ pc = "brand_done" /\ ~isna(name)
    /\ \E i, j, k \in EntryIndex :
           /\ j < i /\ k < i /\ j # k
           /\ prefix_rule(brand_text(name.s), BRAND_MAP[i])
           /\ full_name_rule(brand_text(name.s), BRAND_MAP[j])
           /\ word_rule(brand_text(name.s), BRAND_MAP[k])
           /\ brand = BRAND_MAP[i].full_name

Range(f) == {f[i] : i \in DOMAIN f}

\* column i qualifies: its trimmed lower-cased header holds an include keyword and
\* no exclude keyword
Qualifies(i) ==
    LET h == lower(strip(columns[i]))
    IN  /\ \E kw \in Range(keywords) : contains(h, lower(kw))
        /\ \A ex \in Range(exclude) : ~contains(h, lower(ex))

\* C6: find_robust_col returns the first column, in column order, that qualifies,
\* and None when none does; the result depends on the keywords only as a set.
C6_FirstQualifyingColumn ==
    pc = "col_done" =>
        IF \E i \in 1..Len(columns) : Qualifies(i)
        THEN \E i \in 1..Len(columns) :
                 /\ Qualifies(i) /\ \A j \in 1..(i - 1) : ~Qualifies(j)
                 /\ found = Str(columns[i])
        ELSE found = None

\* the first listed keyword matches only a later column than the second does,
\* and the earlier column is returned
C6_Witness ==
    /\ pc = "col_done" /\ Len(keywords) = 2 /\ Len(columns) >= 2
    /\ found = Str(columns[1])
    /\ ~contains(lower(strip(columns[1])), lower(keywords[1]))
    /\ contains(lower(strip(columns[2])), lower(keywords[1]))
    /\ \E i \in 1..Len(columns) : ~Qualifies(i) /\ contains(lower(strip(columns[i])),
                                                              <<"r", "a", "t", "e">>)

\* C9: clean_numeric is idempotent; a numeric value is returned unchanged.
C9_Idempotent ==
    /\ pc \in {"num_once", "num_twice"} /\ ~IsStr(val) => once = val
    /\ pc = "num_twice" => twice = once

\* a string with a currency symbol and a comma parsed to a number, cleaned twice
C9_Witness ==
    /\ pc = "num_twice" /\ IsStr(val) /\ IsFinite(once) /\ once.n = 11
    /\ contains(val.s, <<"$">>) /\ contains(val.s, <<",">>)


\* C7: after load_and_standardize every cell of a column whose header holds no
\* identifier token is a number, 0 for a text that does not parse and for a missing
\* or empty cell; the identifier columns are unchanged.
C7_MetricCellsAreNumbers ==
    pc = "load_done" =>
        \A i \in 1..Len(upload.columns), r \in 1..Len(upload.rows) :
            LET before == upload.rows[r][i]
                after == loaded.rows[r][i]
            IN  IF is_identifier(strip(upload.columns[i]))
                THEN after = before
                ELSE /\ IsNum(after) /\ ~isna(after)
                     /\ (IsStr(before) /\ to_numeric(cleaned_text(before.s)) = ValueError)
                            => after = Zero
                     /\ (isna(before) \/ before = Str(<<>>)) => after = Zero

Metrics == {"Spend", "Clicks", "Impressions", "AdSales", "Orders"}

\* the value of metric m for brand b in an aggregate, 0 when b is absent from it
ValueOrZero(frame, b, m) ==
    IF \E i \in 1..Len(frame) : frame[i].Brand = b
    THEN LET i == CHOOSE j \in 1..Len(frame) : frame[j].Brand = b IN frame[i][m]
    ELSE Zero

AdsMerged == pc \in {"ads", "biz", "final", "tabs"}

TableBuilt == pc \in {"final", "tabs"}

\* C4: total_ads holds exactly the brands of sp_grouped and sb_grouped, one row
\* each, and every metric of a brand is the sum of the two aggregates' values, a
\* brand absent from one aggregate counting as 0 there.
C4_AdditiveMerge ==
    AdsMerged =>
        /\ Brands(total_ads) = Brands(sp_grouped) \cup Brands(sb_grouped)
        /\ Len(total_ads) = Cardinality(Brands(total_ads))
        /\ \A i \in 1..Len(total_ads), m \in Metrics :
               total_ads[i][m] = add(ValueOrZero(sp_grouped, total_ads[i].Brand, m),
                                     ValueOrZero(sb_grouped, total_ads[i].Brand, m))

\* one brand is in both aggregates and another in one of them only, with values
\* that are not 0
C4_Witness ==
    /\ pc = "ads"
    /\ \E b \in Brands(sp_grouped) \cap Brands(sb_grouped) :
           ValueOrZero(sp_grouped, b, "Spend") # Zero /\ ValueOrZero(sb_grouped, b, "Spend") # Zero
    /\ \E b \in Brands(sp_grouped) \ Brands(sb_grouped) : ValueOrZero(sp_grouped, b, "AdSales") # Zero

\* C3: no row of final_df has Brand "Unmapped".
C3_NoUnmappedRow ==
    TableBuilt => \A i \in 1..Len(final_df) : final_df[i].Brand # Unmapped

\* all three aggregates hold an "Unmapped" row and the final table is not empty
C3_Witness ==
    /\ pc = "final" /\ final_df # <<>>
    /\ Unmapped \in Brands(sp_grouped) /\ Unmapped \in Brands(sb_grouped)
    /\ Unmapped \in Brands(total_biz)

\* the derived ratios: value, numerator, denominator
RatioDefs == {
    <<"CTR", "Clicks", "Impressions">>, <<"CVR", "Orders", "Clicks">>,
    <<"ROAS", "AdSales", "Spend">>, <<"ACOS", "Spend", "AdSales">>,
    <<"TACOS", "Spend", "TotalSales">>, <<"PaidContrib", "AdSales", "TotalSales">>,
    <<"OrganicContrib", "OrganicSales", "TotalSales">> }

\* x is the quotient a/b, b not 0
IsQuotient(x, a, b) ==
    CASE IsFinite(a) /\ IsFinite(b) -> IsFinite(x) /\ x.n * a.d * b.n = a.n * b.d * x.d
      [] IsFinite(a) /\ IsInf(b) -> x = Zero
      [] IsInf(a) /\ IsFinite(b) -> IsInf(x) /\ x.n = a.n * Sign(b.n)
      [] OTHER -> FALSE

\* a/b is a finite number
FiniteQuotient(a, b) == IsFinite(a) /\ b # Zero /\ (IsFinite(b) \/ IsInf(b))

\* no brand of the join other than "Unmapped" is missing from the final table
NoRowDropped ==
    Brands(final_df) = (Brands(total_ads) \cup Brands(total_biz)) \ {Unmapped}

\* C2 as stated: every ratio of every row is 0 when its denominator is 0 and
\* numerator/denominator otherwise, never infinite or NaN, and no row is dropped.
C2_SafeDivision_AsStated ==
    TableBuilt =>
        /\ NoRowDropped
        /\ \A i \in 1..Len(final_df), q \in RatioDefs :
               LET x == final_df[i][q[1]]
                   a == final_df[i][q[2]]
                   b == final_df[i][q[3]]
               IN  /\ IsFinite(x)
                   /\ b = Zero => x = Zero
                   /\ b # Zero => IsQuotient(x, a, b)

\* C2 as amended: every ratio of every row is 0 when its denominator is 0 or when
\* numerator/denominator is not a finite number (an infinite sum in the numerator),
\* and numerator/denominator otherwise; it is never infinite or NaN, and no row is
\* dropped.
C2_SafeDivision ==
    TableBuilt =>
        /\ NoRowDropped
        /\ \A i \in 1..Len(final_df), q \in RatioDefs :
               LET x == final_df[i][q[1]]
                   a == final_df[i][q[2]]
                   b == final_df[i][q[3]]
               IN  /\ IsFinite(x)
                   /\ b = Zero => x = Zero
                   /\ FiniteQuotient(a, b) => IsQuotient(x, a, b)
                   /\ ~FiniteQuotient(a, b) => x = Zero

\* one row has a ratio with numerator not 0 over denominator 0, one row a ratio
\* that is not 0, and one row an infinite numerator over a denominator not 0
C2_Witness ==
    /\ pc = "final"
    /\ \E i \in 1..Len(final_df) :
           final_df[i].Clicks = Zero /\ final_df[i].Orders # Zero /\ final_df[i].CVR = Zero
    /\ \E i \in 1..Len(final_df) : IsFinite(final_df[i].ROAS) /\ final_df[i].ROAS.d > 1
    /\ \E i \in 1..Len(final_df) :
           IsInf(final_df[i].Spend) /\ final_df[i].AdSales # Zero /\ final_df[i].ACOS = Zero

\* C5: the final table is the outer join of total_ads and total_biz without
\* "Unmapped": a brand of total_biz only has the five advertising metrics and ROAS 0
\* and Organic Sales equal to its Total Sales, a brand of total_ads only has Total
\* Sales 0.
C5_OuterJoinZeroFill ==
    TableBuilt =>
        /\ NoRowDropped
        /\ \A i \in 1..Len(final_df) :
               LET x == final_df[i]
               IN  /\ x.Brand \notin Brands(total_ads) =>
                          /\ \A m \in Metrics : x[m] = Zero
                          /\ x.ROAS = Zero
                          /\ \E k \in 1..Len(total_biz) :
                                 /\ total_biz[k].Brand = x.Brand
                                 /\ x.TotalSales = total_biz[k].TotalSales
                                 /\ x.OrganicSales = total_biz[k].TotalSales
                   /\ x.Brand \notin Brands(total_biz) => x.TotalSales = Zero

\* the final table has a brand of the business aggregate only, with sales, and a
\* brand of the advertising aggregate only
C5_Witness ==
    /\ pc = "final"
    /\ \E i \in 1..Len(final_df) :
           /\ final_df[i].Brand \notin Brands(total_ads)
           /\ final_df[i].TotalSales # Zero
    /\ \E i \in 1..Len(final_df) :
           final_df[i].Brand \notin Brands(total_biz) /\ final_df[i].Spend # Zero

\* "Column Detection" found no column for an optional metric of an ad report
MissingOptionalMetric ==
    /\ detected.title_col # None
    /\ \/ detected.sp_sales_col = None \/ detected.sp_orders_col = None
       \/ detected.sb_sales_col = None \/ detected.sb_orders_col = None

\* C8: when find_robust_col finds no header for an optional metric, the
\* aggregation does not raise and the audit table is still produced.
C8_MissingColumnTolerated == MissingOptionalMetric => pc # "raised"

CanonicalNames == {BRAND_MAP[i].full_name : i \in 1..Len(BRAND_MAP)}

\* C10: the final table has at most one row per brand, every Brand is a canonical
\* name of BRAND_MAP, the row a brand tab shows is the brand's only row, and
\* BRAND_MAP is what it was at the start.
C10_OneRowPerBrand ==
    /\ brand_map = BRAND_MAP
    /\ TableBuilt =>
           /\ \A i, j \in 1..Len(final_df) :
                  final_df[i].Brand = final_df[j].Brand => i = j
           /\ \A i \in 1..Len(final_df) : final_df[i].Brand \in CanonicalNames
    /\ pc = "tabs" =>
           \A t \in 1..Len(tabs) :
               /\ tabs[t].brand_name \in CanonicalNames
               /\ tabs[t].r = SelectSeq(final_df, LAMBDA x : x.Brand = tabs[t].brand_name)

\* a brand with two rows in the business report and rows in an ad report is shown
\* in its tab
C10_Witness ==
    /\ pc = "tabs"
    /\ \E t \in 1..Len(tabs) :
           /\ tabs[t].r # <<>>
           /\ \E r1, r2 \in 1..Len(biz_df.rows) :
                  /\ r1 # r2
                  /\ cell(biz_df, r1, BrandCol).s = tabs[t].brand_name
                  /\ cell(biz_df, r2, BrandCol).s = tabs[t].brand_name
           /\ tabs[t].brand_name \in Brands(total_ads)

====
